---- MODULE Spec2Model ----
(***************************************************************************)
(* Model of the command/event orchestration of src/condatools/src/App.tsx: *)
(* the React state of App(), runCommand, handleLoadEnvs, the three         *)
(* backend:// listeners of the mount effect, and the host they talk to.    *)
(*                                                                         *)
(* A nullable JavaScript value is a sequence: <<>> is null/undefined and   *)
(* <<v>> is the value v.                                                   *)
(***************************************************************************)
EXTENDS Integers, Sequences, FiniteSets, TLC

VARIABLES
    logs,             \* useState<string[]>([])            App.tsx:32
    running,          \* useState<string | null>(null)     App.tsx:33
    condaInfo,        \* useState<CondaInfo | null>(null)  App.tsx:34
    environments,     \* useState<Environment[]>([])       App.tsx:35
    error,            \* useState<string | null>(null)     App.tsx:36
    selectedEnvPath,  \* useState<string | null>(null)     App.tsx:37
    packages,         \* useState<Package[]>([])           App.tsx:38
    searchQuery,      \* useState("")                      App.tsx:39
    subscribed,       \* useRef(false)                     App.tsx:42
    setups,           \* the setupListeners() calls made: how many of the three listen() calls
                      \* of each have resolved, and where its cleanup stands
    mounted,          \* the mount effect has run and its cleanup has not
    effect,           \* the setupListeners() call the cleanup of the mounted effect waits for, or 0
    nMounts,          \* how many times the mount effect has run
    invokes,          \* host side: the invoke("run_python_dev") calls not yet rejected or terminated
    nInvoked,         \* host side: how many invoke() calls were made so far
    hostTags,         \* host side: the commands the host has started a process for
    microtask,        \* the continuation of an async handler that runs next, or <<>>
    dialog,           \* the handler suspended in `await confirm/open/save(...)`, or <<>>
    isExportModalOpen,\* useState(false)                   App.tsx:40
    exportingEnv      \* useState<Environment | null>(null) App.tsx:41

vars == <<logs, running, condaInfo, environments, error, selectedEnvPath, packages,
          searchQuery, subscribed, setups, mounted, effect, nMounts, invokes, nInvoked,
          hostTags, microtask, dialog, isExportModalOpen, exportingEnv>>

\* The mount effect, its setupListeners() calls and their cleanups.
mountVars == <<setups, mounted, effect, nMounts>>

\* The slices of application state a stdout/stderr/terminated handler may write.
appState == <<logs, running, condaInfo, environments, error, selectedEnvPath, packages,
              searchQuery, isExportModalOpen, exportingEnv>>

-----------------------------------------------------------------------------
(* Bounds of the exploration *)

MaxLogs == 2
MaxInvokes == 2
MaxMounts == 2

-----------------------------------------------------------------------------
(* JavaScript values *)

Null == <<>>
Some(v) == <<v>>

\* if (x): null, undefined and "" are falsy.
Truthy(x) == x # Null /\ x[1] # ""

RECURSIVE Join(_)
\* finalArgs.join(' ')
Join(args) ==
    IF Len(args) = 0 THEN ""
    ELSE IF Len(args) = 1 THEN args[1]
    ELSE args[1] \o " " \o Join(Tail(args))

\* An argument vector that keeps the empty strings.
FinalArgs_KeepsEmpty(command, extraArgs) == <<command>> \o extraArgs

\* [command, ...extraArgs].filter(arg => arg !== '')
FinalArgs(command, extraArgs) ==
    SelectSeq(<<command>> \o extraArgs, LAMBDA arg : arg # "")

\* `\n--- Starting command: ${commandForLog} ---`
StartingLine(commandForLog) == "\n--- Starting command: " \o commandForLog \o " ---"

\* What invoke() can reject with: an Error object (a string is its own String()).
RejectValues == { [t |-> "Error", v |-> "program not found"] }

\* String(e)
StringOf(e) == IF e.t = "string" THEN e.v ELSE "Error: " \o e.v

-----------------------------------------------------------------------------
(* Payloads of the wire shape *)

\* interface CondaInfo
Info == [conda_version |-> "23.1.0", python_version |-> "3.11.4", root_prefix |-> "/opt/conda"]

\* interface Environment
EnvBase     == [path |-> "/opt/conda", python_version |-> "3.11.4"]
EnvFooClone == [path |-> "/opt/conda/envs/FOO-clone", python_version |-> "3.9.18"]
EnvAlpha    == [path |-> "/opt/conda/envs/alpha", python_version |-> "3.10.13"]

EnvBar      == [path |-> "/opt/conda/envs/bar", python_version |-> "3.9.18"]

EnvListA == <<EnvFooClone, EnvBase>>

\* What env-list reports once FOO-clone has been renamed to bar.
EnvListRenamed == <<EnvBar, EnvBase>>

\* interface Package
PkgNumpy == [name |-> "NumPy", version |-> "1.26.0", build |-> "py311", channel |-> "defaults"]
PkgPip   == [name |-> "pip", version |-> "23.3", build |-> "py311", channel |-> "conda-forge"]

PkgListA == <<PkgNumpy, PkgPip>>

\* The tags of the includes() list of the stdout listener.
MutationTags == {"env-create", "env-remove", "env-rename", "env-import", "env-clone"}

CommandTags == {"probe", "env-list", "pkg-list", "env-export"} \cup MutationTags

-----------------------------------------------------------------------------
(* Lines of the backend, and JSON.parse on them *)

OkLine(tag, dataText) == "{\"command\":\"" \o tag \o "\",\"ok\":true,\"data\":" \o dataText \o "}"
FailLine(tag, err) == "{\"command\":\"" \o tag \o "\",\"ok\":false,\"error\":\"" \o err \o "\"}"

InfoText == "{\"conda_version\":\"23.1.0\",\"python_version\":\"3.11.4\",\"root_prefix\":\"/opt/conda\"}"
EnvListAText == "[{\"path\":\"/opt/conda/envs/FOO-clone\",\"python_version\":\"3.9.18\"},{\"path\":\"/opt/conda\",\"python_version\":\"3.11.4\"}]"
PkgListAText == "[{\"name\":\"NumPy\",\"version\":\"1.26.0\",\"build\":\"py311\",\"channel\":\"defaults\"},{\"name\":\"pip\",\"version\":\"23.3\",\"build\":\"py311\",\"channel\":\"conda-forge\"}]"

\* The error a failing command of each tag reports.
ErrorOf(tag) ==
    IF tag = "pkg-list" THEN "prefix not found" ELSE "conda not found"

TextLine      == "Solving environment: done"
UntaggedLine  == "{\"level\":\"info\",\"msg\":\"cache hit\"}"
UnknownTagLine == "{\"command\":\"env-update\",\"ok\":true,\"data\":null}"

\* The value JSON.parse returns: t is "invalid" when it throws a SyntaxError.
\* command, data and error are the properties read off the value (<<>> when
\* undefined); ok is the truthiness of result.ok.
Parsed(t, command, ok, data, err) ==
    [t |-> t, command |-> command, ok |-> ok, data |-> data, error |-> err]

ResultOk(tag, data) == Parsed("object", Some(tag), TRUE, data, Null)
ResultFail(tag) == Parsed("object", Some(tag), FALSE, Null, Some(ErrorOf(tag)))

JSONTable ==
    { [raw |-> TextLine,       json |-> Parsed("invalid", Null, FALSE, Null, Null)],
      [raw |-> UntaggedLine,   json |-> Parsed("object", Null, FALSE, Null, Null)],
      [raw |-> UnknownTagLine, json |-> Parsed("object", Some("env-update"), TRUE, Null, Null)],
      [raw |-> OkLine("probe", InfoText),        json |-> ResultOk("probe", Some(Info))],
      [raw |-> OkLine("env-list", EnvListAText), json |-> ResultOk("env-list", Some(EnvListA))],
      [raw |-> OkLine("pkg-list", PkgListAText), json |-> ResultOk("pkg-list", Some(PkgListA))] }
    \cup { [raw |-> OkLine(tag, "null"), json |-> ResultOk(tag, Null)] :
             tag \in MutationTags \cup {"env-export"} }
    \cup { [raw |-> FailLine(tag, ErrorOf(tag)), json |-> ResultFail(tag)] : tag \in CommandTags }

\* The payloads of backend://stdout events.
StdoutLines == { e.raw : e \in JSONTable }

\* The payloads of backend://stderr events: plain text, and text that is a result line.
StderrLines == { FailLine("pkg-list", ErrorOf("pkg-list")) }

\* JSON.parse(line)
JSONParse(line) == (CHOOSE e \in JSONTable : e.raw = line).json

-----------------------------------------------------------------------------
(* String methods, on the strings of this model *)

\* s.trim()
Trim(s) ==
    CASE s = "  " -> ""
      [] s = " bar " -> "bar"
      [] OTHER -> s

\* s.toLowerCase()
ToLowerCase(s) ==
    CASE s = "Base" -> "base"
      [] s = "FOO-clone" -> "foo-clone"
      [] s = "NumPy" -> "numpy"
      [] s = "PY" -> "py"
      [] OTHER -> s

PathDirs == {"/opt/", "/opt/conda/envs/"}
PathSegments == {"conda", "FOO-clone", "alpha", "bar"}

\* path.split(/[\\/]/).pop(): the text after the last separator.
SplitPop(path) ==
    IF \E d \in PathDirs, seg \in PathSegments : path = d \o seg
    THEN CHOOSE seg \in PathSegments : \E d \in PathDirs : path = d \o seg
    ELSE path

\* x || y on strings
OrElse(x, y) == IF x # "" THEN x ELSE y

\* The UTF-16 code units of the strings that are searched or compared.
Chars(s) ==
    CASE s = "" -> <<>>
      [] s = "p" -> <<"p">>
      [] s = "py" -> <<"p", "y">>
      [] s = "pip" -> <<"p", "i", "p">>
      [] s = "numpy" -> <<"n", "u", "m", "p", "y">>
      [] s = "3" -> <<"3">>
      [] s = "conda" -> <<"c", "o", "n", "d", "a">>
      [] s = "/opt/conda" -> <<"/", "o", "p", "t", "/", "c", "o", "n", "d", "a">>
      [] s = "/opt/conda/envs/FOO-clone" ->
             <<"/", "o", "p", "t", "/", "c", "o", "n", "d", "a", "/", "e", "n", "v", "s", "/",
               "F", "O", "O", "-", "c", "l", "o", "n", "e">>
      [] s = "/opt/conda/envs/alpha" ->
             <<"/", "o", "p", "t", "/", "c", "o", "n", "d", "a", "/", "e", "n", "v", "s", "/",
               "a", "l", "p", "h", "a">>

\* s.includes(sub)
Includes(s, sub) ==
    LET cs == Chars(s)
        cq == Chars(sub)
    IN  \E i \in 1..(Len(cs) - Len(cq) + 1) : SubSeq(cs, i, i + Len(cq) - 1) = cq

\* The code unit of a character.
CodeUnit(ch) ==
    CASE ch = "-" -> 45 [] ch = "/" -> 47 [] ch = "3" -> 51
      [] ch = "F" -> 70 [] ch = "O" -> 79
      [] ch = "a" -> 97 [] ch = "c" -> 99 [] ch = "d" -> 100 [] ch = "e" -> 101
      [] ch = "h" -> 104 [] ch = "i" -> 105 [] ch = "l" -> 108 [] ch = "m" -> 109
      [] ch = "n" -> 110 [] ch = "o" -> 111 [] ch = "p" -> 112 [] ch = "s" -> 115
      [] ch = "t" -> 116 [] ch = "u" -> 117 [] ch = "v" -> 118 [] ch = "y" -> 121

\* The primary collation weight of a character: punctuation before digits
\* before letters, and a letter weighs the same in either case.
CollationWeight(ch) ==
    CASE ch = "-" -> 1 [] ch = "/" -> 2 [] ch = "3" -> 13
      [] ch = "F" -> 26 [] ch = "O" -> 35
      [] ch = "a" -> 21 [] ch = "c" -> 23 [] ch = "d" -> 24 [] ch = "e" -> 25
      [] ch = "h" -> 28 [] ch = "i" -> 29 [] ch = "l" -> 32 [] ch = "m" -> 33
      [] ch = "n" -> 34 [] ch = "o" -> 35 [] ch = "p" -> 36 [] ch = "s" -> 39
      [] ch = "t" -> 40 [] ch = "u" -> 41 [] ch = "v" -> 42 [] ch = "y" -> 45

\* The order of two sequences of numbers, first difference deciding and a
\* proper prefix first: -1, 0 or 1.
RECURSIVE SeqCompare(_, _)
SeqCompare(x, y) ==
    IF x = <<>> THEN (IF y = <<>> THEN 0 ELSE -1)
    ELSE IF y = <<>> THEN 1
    ELSE IF x[1] < y[1] THEN -1
    ELSE IF x[1] > y[1] THEN 1
    ELSE SeqCompare(Tail(x), Tail(y))

\* The order of two strings by code units: -1, 0 or 1.
CodeUnitCompare(a, b) ==
    SeqCompare([i \in DOMAIN Chars(a) |-> CodeUnit(Chars(a)[i])],
               [i \in DOMAIN Chars(b) |-> CodeUnit(Chars(b)[i])])

\* a.localeCompare(b): the order of the collation weights decides; strings that
\* differ in case only are ordered lower case first.
LocaleCompare(a, b) ==
    LET primary == SeqCompare([i \in DOMAIN Chars(a) |-> CollationWeight(Chars(a)[i])],
                              [i \in DOMAIN Chars(b) |-> CollationWeight(Chars(b)[i])])
    IN  IF primary # 0 THEN primary ELSE -CodeUnitCompare(a, b)

-----------------------------------------------------------------------------
(* The application state as one value, and the functions of App() on it *)

\* The state a handler reads and writes: the React state and the invoke() calls made.
S == [logs |-> logs, running |-> running, condaInfo |-> condaInfo,
      environments |-> environments, error |-> error,
      selectedEnvPath |-> selectedEnvPath, packages |-> packages,
      searchQuery |-> searchQuery, isExportModalOpen |-> isExportModalOpen,
      exportingEnv |-> exportingEnv, invokes |-> invokes, nInvoked |-> nInvoked]

\* The values of the first render: the initial values of useState, and no
\* invoke() made.
FirstState ==
    [logs |-> <<>>, running |-> Null, condaInfo |-> Null, environments |-> <<>>,
     error |-> Null, selectedEnvPath |-> Null, packages |-> <<>>, searchQuery |-> "",
     isExportModalOpen |-> FALSE, exportingEnv |-> Null, invokes |-> <<>>, nInvoked |-> 0]

\* The handler's result becomes the next state.
Apply(st) ==
    /\ logs' = st.logs
    /\ running' = st.running
    /\ condaInfo' = st.condaInfo
    /\ environments' = st.environments
    /\ error' = st.error
    /\ selectedEnvPath' = st.selectedEnvPath
    /\ packages' = st.packages
    /\ searchQuery' = st.searchQuery
    /\ isExportModalOpen' = st.isExportModalOpen
    /\ exportingEnv' = st.exportingEnv
    /\ invokes' = st.invokes
    /\ nInvoked' = st.nInvoked

\* The exploration stops where the transcript or the number of invoke() calls
\* would pass its bound.
Within(st) == Len(st.logs) <= MaxLogs /\ st.nInvoked <= MaxInvokes

\* What the functions of one render close over: the state values of that render.
Render == [running |-> running, environments |-> environments,
           selectedEnvPath |-> selectedEnvPath, exportingEnv |-> exportingEnv]

\* The first render holds the initial values of useState. The mount effect has
\* no dependencies, so the listeners it registers, and the handleLoadEnvs and
\* runCommand they call, are those of the first render.
FirstRender == [running |-> Null, environments |-> <<>>,
                selectedEnvPath |-> Null, exportingEnv |-> Null]

\* A runCommand that starts the transcript anew with its starting line.
runCommand_ResetsLogs(st, c, command, extraArgs, awaiter) ==
    IF Truthy(c.running) THEN st
    ELSE LET finalArgs == FinalArgs(command, extraArgs)
             commandForLog == Join(finalArgs)
         IN  [st EXCEPT !.running = Some(commandForLog),
                        !.logs = <<StartingLine(commandForLog)>>,
                        !.error = Null,
                        !.invokes = Append(@, [args |-> finalArgs, st |-> "pending",
                                               awaiter |-> awaiter]),
                        !.nInvoked = @ + 1]

\* runCommand, up to its await: c is the render the called runCommand belongs
\* to; awaiter is the async caller that awaits the returned promise, or <<>>.
runCommand(st, c, command, extraArgs, awaiter) ==
    IF Truthy(c.running) THEN st
    ELSE LET finalArgs == FinalArgs(command, extraArgs)
             commandForLog == Join(finalArgs)
         IN  [st EXCEPT !.running = Some(commandForLog),
                        !.logs = Append(@, StartingLine(commandForLog)),
                        !.error = Null,
                        !.invokes = Append(@, [args |-> finalArgs, st |-> "pending",
                                               awaiter |-> awaiter]),
                        !.nInvoked = @ + 1]

\* A catch branch that leaves `running` set.
runCommandCatch_KeepsRunning(st, e) == [st EXCEPT !.error = Some(StringOf(e))]

\* runCommand's catch branch: invoke() rejected with e.
runCommandCatch(st, e) ==
    [st EXCEPT !.error = Some(StringOf(e)), !.running = Null]

\* handleLoadEnvs, up to its await (probeFirst) or to its end. A declined
\* probe resolves at once and the env-list call that follows is declined by
\* the same closure.
handleLoadEnvs(st, c, probeFirst) ==
    IF probeFirst
    THEN runCommand(st, c, "probe", <<>>, Some([fn |-> "handleLoadEnvs", c |-> c]))
    ELSE runCommand(st, c, "env-list", <<>>, Null)

\* A continuation whose runCommand reads the running of the current state.
handleLoadEnvsResume_ReadsCurrent(st, c) ==
    runCommand(st, [c EXCEPT !.running = st.running], "env-list", <<>>, Null)

\* handleLoadEnvs after `await runCommand('probe')`.
handleLoadEnvsResume(st, c) == runCommand(st, c, "env-list", <<>>, Null)

\* A name check that compares the names as they are written.
isEnvNameExists_CaseSensitive(c, name) ==
    \/ name = "base"
    \/ \E k \in DOMAIN c.environments :
          OrElse(SplitPop(c.environments[k].path), "") = name

\* isEnvNameExists, on the environments of render c
isEnvNameExists(c, name) ==
    \/ ToLowerCase(name) = "base"
    \/ \E k \in DOMAIN c.environments :
          ToLowerCase(OrElse(SplitPop(c.environments[k].path), "")) = ToLowerCase(name)

\* cmd.split('-')[1]
ActionOf(cmd) ==
    CHOOSE a \in {"create", "remove", "rename", "import", "clone"} : cmd = "env-" \o a

\* `--- Environment ${action} operation successful! Refreshing list... ---`
SuccessLine(action) ==
    "--- Environment " \o action \o " operation successful! Refreshing list... ---"

ExportedLine == "--- Environment exported successfully! ---"

\* The probe branch of the stdout listener.
RouteProbe(st, result) ==
    IF result.ok THEN [st EXCEPT !.condaInfo = result.data]
    ELSE [st EXCEPT !.error = result.error]

\* An env-list branch that adds the payload to the list it has.
RouteEnvList_Merges(st, result) ==
    IF result.ok THEN [st EXCEPT !.environments = @ \o result.data[1]]
    ELSE [st EXCEPT !.error = result.error]

\* The env-list branch of the stdout listener.
RouteEnvList(st, result) ==
    IF result.ok THEN [st EXCEPT !.environments = result.data[1]]
    ELSE [st EXCEPT !.error = result.error]

\* A pkg-list branch that keeps the package list on failure.
RoutePkgList_KeepsPackages(st, result) ==
    IF result.ok THEN [st EXCEPT !.packages = result.data[1]]
    ELSE [st EXCEPT !.error = result.error]

\* The pkg-list branch of the stdout listener.
RoutePkgList(st, result) ==
    IF result.ok THEN [st EXCEPT !.packages = result.data[1]]
    ELSE [st EXCEPT !.error = result.error, !.packages = <<>>]

\* A mutation branch that refreshes with handleLoadEnvs(true).
RouteMutation_Reprobes(st, result) ==
    IF result.ok
    THEN handleLoadEnvs([st EXCEPT !.logs = Append(@, SuccessLine(ActionOf(result.command[1])))],
                        FirstRender, TRUE)
    ELSE [st EXCEPT !.error = result.error]

\* The branch of the stdout listener for the five commands that change the
\* set of environments: handleLoadEnvs(false) of the first render.
RouteMutation(st, result) ==
    IF result.ok
    THEN handleLoadEnvs([st EXCEPT !.logs = Append(@, SuccessLine(ActionOf(result.command[1])))],
                        FirstRender, FALSE)
    ELSE [st EXCEPT !.error = result.error]

\* An env-export branch that refreshes the list as the mutation branch does.
RouteExport_Refreshes(st, result) ==
    IF result.ok THEN handleLoadEnvs([st EXCEPT !.logs = Append(@, ExportedLine)], FirstRender, FALSE)
    ELSE [st EXCEPT !.error = result.error]

\* The env-export branch of the stdout listener.
RouteExport(st, result) ==
    IF result.ok THEN [st EXCEPT !.logs = Append(@, ExportedLine)]
    ELSE [st EXCEPT !.error = result.error]

\* The if/else-if chain of the stdout listener on result.command.
Route(st, result) ==
    LET cmd == result.command IN
    IF cmd = Some("probe") THEN RouteProbe(st, result)
    ELSE IF cmd = Some("env-list") THEN RouteEnvList(st, result)
    ELSE IF cmd = Some("pkg-list") THEN RoutePkgList(st, result)
    ELSE IF cmd # Null /\ cmd[1] \in MutationTags THEN RouteMutation(st, result)
    ELSE IF cmd = Some("env-export") THEN RouteExport(st, result)
    ELSE st

\* A classification that takes every line for log output while no command runs.
Classify_ByRunState(st, line) ==
    LET result == JSONParse(line) IN
    IF ~Truthy(st.running) \/ result.t \in {"invalid", "null"}
    THEN [kind |-> "log", line |-> line, result |-> Null]
    ELSE [kind |-> "result", line |-> line, result |-> Some(result)]

\* What the stdout listener takes a line for, in state st: JSON.parse throws on
\* text that is not JSON, and reading .command of the value null throws a
\* TypeError: both reach the catch, and the line is log output. Any other
\* value is a result, read by its command, ok, data and error.
Classify(st, line) ==
    LET result == JSONParse(line) IN
    IF result.t \in {"invalid", "null"}
    THEN [kind |-> "log", line |-> line, result |-> Null]
    ELSE [kind |-> "result", line |-> line, result |-> Some(result)]

\* A stdout listener whose catch does nothing.
OnStdout_Swallows(st, line) ==
    LET result == JSONParse(line) IN
    IF result.t \in {"invalid", "null"} THEN st ELSE Route(st, result)

\* The backend://stdout listener.
OnStdout(st, line) ==
    LET c == Classify(st, line) IN
    IF c.kind = "log"
    THEN [st EXCEPT !.logs = Append(@, line)]
    ELSE Route(st, c.result[1])

\* A stderr listener that appends the payload as it is.
OnStderr_NoPrefix(st, payload) == [st EXCEPT !.logs = Append(@, payload)]

\* The backend://stderr listener.
OnStderr(st, payload) == [st EXCEPT !.logs = Append(@, "[ERR] " \o payload)]

\* A terminated listener that clears the error as well.
OnTerminated_ClearsError(st) == [st EXCEPT !.running = Null, !.error = Null]

\* The backend://terminated listener.
OnTerminated(st) == [st EXCEPT !.running = Null]

\* A handleEnvSelect without its guard: the selection changes, and runCommand
\* declines.
handleEnvSelect_Unguarded(st, c, env) ==
    runCommand([st EXCEPT !.selectedEnvPath = Some(env.path),
                          !.packages = <<>>,
                          !.searchQuery = ""],
               c, "pkg-list", <<"--prefix", env.path>>, Null)

\* handleEnvSelect
handleEnvSelect(st, c, env) ==
    IF Truthy(c.running) THEN st
    ELSE runCommand([st EXCEPT !.selectedEnvPath = Some(env.path),
                               !.packages = <<>>,
                               !.searchQuery = ""],
                    c, "pkg-list", <<"--prefix", env.path>>, Null)

\* !s || s.trim() === "" for the answer of prompt() (<<>> when cancelled)
Blank(answer) == IF Truthy(answer) THEN Trim(answer[1]) = "" ELSE TRUE

\* handleCreateEnv: name and pythonVersion are the answers of the two prompts.
\* The message() shown for an existing name is awaited and followed by return.
handleCreateEnv(st, c, name, pythonVersion) ==
    IF Blank(name) THEN st
    ELSE IF isEnvNameExists(c, Trim(name[1])) THEN st
    ELSE IF Blank(pythonVersion) THEN st
    ELSE runCommand(st, c, "env-create",
                    <<"--name", Trim(name[1]), "--python", Trim(pythonVersion[1])>>, Null)

\* handleRemoveEnv after `await confirm(...)`
handleRemoveEnvResume(st, c, env, confirmed) ==
    IF ~confirmed THEN st
    ELSE runCommand(IF c.selectedEnvPath = Some(env.path)
                    THEN [st EXCEPT !.selectedEnvPath = Null, !.packages = <<>>]
                    ELSE st,
                    c, "env-remove", <<"--prefix", env.path>>, Null)

\* handleRenameEnv: newName is the answer of the prompt.
handleRenameEnv(st, c, env, newName) ==
    LET oldName == OrElse(SplitPop(env.path), env.path) IN
    IF Truthy(c.running) THEN st
    ELSE IF Blank(newName) \/ ToLowerCase(Trim(newName[1])) = ToLowerCase(oldName) THEN st
    ELSE IF isEnvNameExists(c, Trim(newName[1])) THEN st
    ELSE runCommand(st, c, "env-rename",
                    <<"--old-name", oldName, "--new-name", Trim(newName[1])>>, Null)

\* handleCloneEnv: destName is the answer of the prompt.
handleCloneEnv(st, c, env, destName) ==
    LET sourceName == OrElse(SplitPop(env.path), env.path) IN
    IF Truthy(c.running) THEN st
    ELSE IF Blank(destName) THEN st
    ELSE IF ToLowerCase(Trim(destName[1])) = ToLowerCase(sourceName) THEN st
    ELSE IF isEnvNameExists(c, Trim(destName[1])) THEN st
    ELSE runCommand(st, c, "env-clone",
                    <<"--source-name", sourceName, "--dest-name", Trim(destName[1])>>, Null)

\* handleImportEnv after `await open(...)`: filePath is <<>> when the dialog
\* was cancelled, newName is the answer of the prompt.
handleImportEnvResume(st, c, filePath, newName) ==
    IF filePath = Null THEN st
    ELSE IF Blank(newName) THEN st
    ELSE IF isEnvNameExists(c, Trim(newName[1])) THEN st
    ELSE runCommand(st, c, "env-import",
                    <<"--file", filePath[1], "--name", Trim(newName[1])>>, Null)

\* openExportModal
openExportModal(st, env) ==
    [st EXCEPT !.exportingEnv = Some(env), !.isExportModalOpen = TRUE]

\* onClose of the modal
closeExportModal(st) ==
    [st EXCEPT !.isExportModalOpen = FALSE, !.exportingEnv = Null]

\* handleExportFromModal after `await save(...)`
handleExportFromModalResume(st, c, format, noBuilds, filePath) ==
    LET envName == OrElse(SplitPop(c.exportingEnv[1].path), c.exportingEnv[1].path)
        ran == IF Truthy(filePath)
               THEN runCommand(st, c, "env-export",
                               <<"--name", envName, "--file", filePath[1], "--format", format,
                                 IF noBuilds THEN "--no-builds" ELSE "">>, Null)
               ELSE st
    IN  closeExportModal(ran)

-----------------------------------------------------------------------------
(* The derived views of a render *)

\* The comparator of sortedEnvironments.
EnvCompare(a, b, rootPrefix) ==
    IF a.path = rootPrefix THEN -1
    ELSE IF b.path = rootPrefix THEN 1
    ELSE LocaleCompare(a.path, b.path)

\* Array.prototype.sort with that comparator: a stable sort.
RECURSIVE SortInsert(_, _, _)
SortInsert(sorted, x, rootPrefix) ==
    IF sorted = <<>> THEN <<x>>
    ELSE IF EnvCompare(sorted[Len(sorted)], x, rootPrefix) > 0
         THEN Append(SortInsert(SubSeq(sorted, 1, Len(sorted) - 1), x, rootPrefix),
                     sorted[Len(sorted)])
         ELSE Append(sorted, x)

RECURSIVE SortEnvs(_, _)
SortEnvs(envs, rootPrefix) ==
    IF envs = <<>> THEN <<>>
    ELSE SortInsert(SortEnvs(SubSeq(envs, 1, Len(envs) - 1), rootPrefix),
                    envs[Len(envs)], rootPrefix)

\* sortedEnvironments
sortedEnvironments(st) ==
    LET rootPrefix == IF st.condaInfo = Null THEN Null ELSE Some(st.condaInfo[1].root_prefix)
    IN  IF ~Truthy(rootPrefix) THEN st.environments
        ELSE SortEnvs(st.environments, rootPrefix[1])

\* A filter that matches the query against the version as well.
filteredPackages_MatchesVersion(st) ==
    IF st.searchQuery = "" THEN st.packages
    ELSE SelectSeq(st.packages,
                   LAMBDA p : \/ Includes(ToLowerCase(p.name), ToLowerCase(st.searchQuery))
                              \/ p.version = "23.3" /\ st.searchQuery = "3")

\* filteredPackages
filteredPackages(st) ==
    IF st.searchQuery = "" THEN st.packages
    ELSE SelectSeq(st.packages,
                   LAMBDA p : Includes(ToLowerCase(p.name), ToLowerCase(st.searchQuery)))

-----------------------------------------------------------------------------
(* Initial states *)

\* The state after the first render, before the mount effect has run.
Fresh ==
    /\ logs = <<>>
    /\ running = Null
    /\ condaInfo = Null
    /\ environments = <<>>
    /\ error = Null
    /\ selectedEnvPath = Null
    /\ packages = <<>>
    /\ searchQuery = ""
    /\ isExportModalOpen = FALSE
    /\ exportingEnv = Null
    /\ subscribed = FALSE
    /\ setups = <<>>
    /\ mounted = FALSE
    /\ effect = 0
    /\ nMounts = 0
    /\ invokes = <<>>
    /\ nInvoked = 0
    /\ hostTags = {}
    /\ microtask = Null
    /\ dialog = Null

\* The state the fresh application is in after the startup probe and one
\* load/refresh have reported and exited and the user has cleared the log
\* (Mount, three ListenResolved, the probe's result and exit, ClickLoad, the
\* results and exits of its two processes, ClickClearLogs). nInvoked counts
\* from here.
Loaded ==
    /\ logs = <<>>
    /\ running = Null
    /\ condaInfo = Some(Info)
    /\ environments = EnvListA
    /\ error = Null
    /\ selectedEnvPath = Null
    /\ packages = <<>>
    /\ searchQuery = ""
    /\ isExportModalOpen = FALSE
    /\ exportingEnv = Null
    /\ subscribed = TRUE
    /\ setups = <<[n |-> 3, cleanup |-> "none"]>>
    /\ mounted = TRUE
    /\ effect = 1
    /\ nMounts = 1
    /\ invokes = <<>>
    /\ nInvoked = 0
    /\ hostTags = {"probe", "env-list"}
    /\ microtask = Null
    /\ dialog = Null

\* The state the fresh application is in while its first load/refresh is under
\* way: the startup probe has reported and exited, the user has clicked
\* load/refresh, both of its processes have been started, the probe's one has
\* exited and the env-list one has not reported yet; the log has been cleared
\* (Mount, three ListenResolved, the probe's result and exit, ClickLoad,
\* HostAccept, LoadEnvsResume, HostAccept, Terminated of the probe,
\* ClickClearLogs). nInvoked counts the env-list call that is under way.
Refreshing ==
    /\ logs = <<>>
    /\ running = Null
    /\ condaInfo = Some(Info)
    /\ environments = <<>>
    /\ error = Null
    /\ selectedEnvPath = Null
    /\ packages = <<>>
    /\ searchQuery = ""
    /\ isExportModalOpen = FALSE
    /\ exportingEnv = Null
    /\ subscribed = TRUE
    /\ setups = <<[n |-> 3, cleanup |-> "none"]>>
    /\ mounted = TRUE
    /\ effect = 1
    /\ nMounts = 1
    /\ invokes = <<[args |-> <<"env-list">>, st |-> "started", awaiter |-> Null]>>
    /\ nInvoked = 1
    /\ hostTags = {"probe", "env-list"}
    /\ microtask = Null
    /\ dialog = Null

\* The state of Loaded when no ok:true probe result has been handled: the
\* probes failed, or their result lines are still to come.
Unprobed ==
    /\ logs = <<>>
    /\ running = Null
    /\ condaInfo = Null
    /\ environments = EnvListA
    /\ error = Null
    /\ selectedEnvPath = Null
    /\ packages = <<>>
    /\ searchQuery = ""
    /\ isExportModalOpen = FALSE
    /\ exportingEnv = Null
    /\ subscribed = TRUE
    /\ setups = <<[n |-> 3, cleanup |-> "none"]>>
    /\ mounted = TRUE
    /\ effect = 1
    /\ nMounts = 1
    /\ invokes = <<>>
    /\ nInvoked = 0
    /\ hostTags = {"probe", "env-list"}
    /\ microtask = Null
    /\ dialog = Null

Init == Fresh \/ Loaded \/ Refreshing \/ Unprobed

\* The state of Loaded after the user has selected FOO-clone, its packages
\* have been reported, the pkg-list process has exited and the log has been
\* cleared (ClickEnvSelect, HostAccept, the pkg-list result, Terminated,
\* ClickClearLogs). nInvoked counts from here.
Selected ==
    /\ logs = <<>>
    /\ running = Null
    /\ condaInfo = Some(Info)
    /\ environments = EnvListA
    /\ error = Null
    /\ selectedEnvPath = Some(EnvFooClone.path)
    /\ packages = PkgListA
    /\ searchQuery = ""
    /\ isExportModalOpen = FALSE
    /\ exportingEnv = Null
    /\ subscribed = TRUE
    /\ setups = <<[n |-> 3, cleanup |-> "none"]>>
    /\ mounted = TRUE
    /\ effect = 1
    /\ nMounts = 1
    /\ invokes = <<>>
    /\ nInvoked = 0
    /\ hostTags = {"probe", "env-list", "pkg-list"}
    /\ microtask = Null
    /\ dialog = Null

-----------------------------------------------------------------------------
(* Actions of the host and of the listeners *)

\* The seq without its i-th element.
RemoveAt(seq, i) == SubSeq(seq, 1, i - 1) \o SubSeq(seq, i + 1, Len(seq))

\* The effect has run and no continuation is waiting to run: events are handled.
Idle == subscribed /\ microtask = Null

uiVars == <<subscribed, mountVars, hostTags, microtask, dialog>>

\* The listeners registered on a stream (1: backend://stdout, 2: backend://stderr,
\* 3: backend://terminated, in the order setupListeners awaits them) and not
\* unlistened.
Subscriptions(stream) ==
    Cardinality({ k \in DOMAIN setups : setups[k].n >= stream /\ setups[k].cleanup # "done" })

\* A mount effect without the latch.
EffectSkips_Never == FALSE

\* if (subscribed.current) return;
EffectSkips == subscribed

\* The mount effect: unless the latch is set it sets it, starts setupListeners
\* and calls runCommand('probe') without waiting for the listeners; the cleanup
\* it returns waits for that setupListeners call.
Mount ==
    /\ ~mounted
    /\ microtask = Null
    /\ nMounts < MaxMounts
    /\ mounted' = TRUE
    /\ nMounts' = nMounts + 1
    /\ IF EffectSkips
       THEN /\ effect' = 0
            /\ UNCHANGED <<appState, invokes, nInvoked, subscribed, setups>>
       ELSE /\ subscribed' = TRUE
            /\ setups' = Append(setups, [n |-> 0, cleanup |-> "none"])
            /\ effect' = Len(setups) + 1
            /\ LET st == runCommand(S, FirstRender, "probe", <<>>, Null)
               IN  Within(st) /\ Apply(st)
    /\ UNCHANGED <<hostTags, microtask, dialog>>

\* A cleanup that unlistens what is registered when it runs and does not wait
\* for a setupListeners call that has not returned.
Unmount_SkipsUnfinished ==
    /\ mounted
    /\ microtask = Null
    /\ mounted' = FALSE
    /\ effect' = 0
    /\ setups' = IF effect = 0 \/ setups[effect].n < 3 THEN setups
                 ELSE [setups EXCEPT ![effect].cleanup = "pending"]
    /\ UNCHANGED <<appState, subscribed, nMounts, invokes, nInvoked, hostTags, microtask, dialog>>

\* The cleanup of the mount effect: unlistenPromise.then(...) is registered.
Unmount ==
    /\ mounted
    /\ microtask = Null
    /\ mounted' = FALSE
    /\ effect' = 0
    /\ setups' = IF effect = 0 THEN setups ELSE [setups EXCEPT ![effect].cleanup = "pending"]
    /\ UNCHANGED <<appState, subscribed, nMounts, invokes, nInvoked, hostTags, microtask, dialog>>

\* The callback of unlistenPromise.then runs once the k-th setupListeners has
\* returned: the three listeners are unlistened.
CleanupRuns(k) ==
    /\ microtask = Null
    /\ setups[k].cleanup = "pending"
    /\ setups[k].n = 3
    /\ setups' = [setups EXCEPT ![k].cleanup = "done"]
    /\ UNCHANGED <<appState, subscribed, mounted, effect, nMounts, invokes, nInvoked,
                   hostTags, microtask, dialog>>

\* setupListeners: the next `await listen(...)` of the k-th call resolves
\* (stdout, stderr, terminated).
ListenResolved(k) ==
    /\ Idle
    /\ setups[k].n < 3
    /\ setups' = [setups EXCEPT ![k].n = @ + 1]
    /\ UNCHANGED <<appState, subscribed, mounted, effect, nMounts, invokes, nInvoked,
                   hostTags, microtask, dialog>>

\* The host starts the process of the i-th invoke(): its promise resolves, and
\* an async caller awaiting runCommand runs next.
HostAccept(i) ==
    /\ Idle
    /\ invokes[i].st = "pending"
    /\ invokes' = [invokes EXCEPT ![i].st = "started", ![i].awaiter = Null]
    /\ hostTags' = hostTags \cup {invokes[i].args[1]}
    /\ microtask' = invokes[i].awaiter
    /\ UNCHANGED <<appState, subscribed, mountVars, nInvoked, dialog>>

\* The promise of the i-th invoke() is not settled yet.
Rejectable(i) == Idle /\ invokes[i].st = "pending"

\* The host cannot start the process of the i-th invoke(): its promise rejects
\* with e and runCommand's catch branch runs.
HostReject(i, e) ==
    /\ Rejectable(i)
    /\ Apply(runCommandCatch([S EXCEPT !.invokes = RemoveAt(@, i)], e))
    /\ microtask' = invokes[i].awaiter
    /\ UNCHANGED <<subscribed, mountVars, hostTags, dialog>>

\* The continuation of handleLoadEnvs(true).
LoadEnvsResume ==
    /\ subscribed
    /\ microtask # Null
    /\ LET st == handleLoadEnvsResume(S, microtask[1].c)
       IN  Within(st) /\ Apply(st)
    /\ microtask' = Null
    /\ UNCHANGED <<subscribed, mountVars, hostTags, dialog>>

\* The lines the host can emit: what the backend logs, and the result of a
\* command it has been started for.
Emits(line) ==
    LET cmd == JSONParse(line).command
    IN  IF cmd = Null THEN TRUE
        ELSE IF cmd[1] \notin CommandTags THEN TRUE
        ELSE cmd[1] \in hostTags

\* A backend://stdout event with this payload can reach the listener: the host
\* has started a process that prints it and the listener is registered.
StdoutArrives(line) == Idle /\ hostTags # {} /\ Emits(line) /\ Subscriptions(1) >= 1

\* A backend://stderr event can reach the listener.
StderrArrives == Idle /\ hostTags # {} /\ Subscriptions(2) >= 1

\* The host emits a line on stdout; the listener, once registered, handles it.
Stdout(line) ==
    /\ StdoutArrives(line)
    /\ LET st == OnStdout(S, line)
       IN  Within(st) /\ Apply(st)
    /\ UNCHANGED uiVars

\* The host emits a line on stderr.
Stderr(payload) ==
    /\ StderrArrives
    /\ LET st == OnStderr(S, payload)
       IN  Within(st) /\ Apply(st)
    /\ UNCHANGED uiVars

\* The process of the i-th invoke() exits. The event is lost when the
\* terminated listener is not registered yet.
Terminated(i) ==
    /\ Idle
    /\ invokes[i].st = "started"
    /\ LET st == [S EXCEPT !.invokes = RemoveAt(@, i)]
       IN  Apply(IF Subscriptions(3) >= 1 THEN OnTerminated(st) ELSE st)
    /\ UNCHANGED uiVars

-----------------------------------------------------------------------------
(* Actions of the user *)

\* What the user answers to a prompt() for a name (<<>>: cancelled).
NameAnswers == {Null, Some("  "), Some(" bar "), Some("Base"), Some("foo-clone")}

\* What the user answers to the prompt() for a Python version.
VersionAnswers == {Null, Some("3.9")}

\* The options the export modal passes to onExport.
ExportOptions == { [format |-> "yml", noBuilds |-> FALSE], [format |-> "txt", noBuilds |-> TRUE] }

\* The paths the open() and save() dialogs return (<<>>: cancelled).
FileAnswers == {Null, Some("/tmp/env.yml")}

\* The page takes clicks: no continuation is waiting, no native dialog is open
\* and the export modal does not cover the page.
Clickable == Idle /\ dialog = Null /\ ~isExportModalOpen

\* The exploration opens no dialog whose command would pass the bound on
\* invoke() calls.
CanInvoke == nInvoked < MaxInvokes

\* A handler suspended in an awaited dialog: its render, and its arguments.
Suspended(fn, env, format, noBuilds) ==
    Some([fn |-> fn, c |-> Render, env |-> env, format |-> format, noBuilds |-> noBuilds])

\* running?.startsWith('env-list'): runCommand('env-list') is the one command
\* whose text starts so.
ListHidden == running = Some("env-list")

\* isBase of the list item
IsBase(env) == IF condaInfo = Null THEN FALSE ELSE env.path = condaInfo[1].root_prefix

\* The load/refresh button (disabled={!!running}): handleLoadEnvs(true) of the
\* current render.
ClickLoad ==
    /\ Clickable
    /\ ~Truthy(running)
    /\ LET st == handleLoadEnvs(S, Render, TRUE)
       IN  Within(st) /\ Apply(st)
    /\ UNCHANGED uiVars

\* The clear-log button (disabled={logs.length === 0}): setLogs([]).
ClickClearLogs ==
    /\ Clickable
    /\ Len(logs) # 0
    /\ logs' = <<>>
    /\ UNCHANGED <<running, condaInfo, environments, error, selectedEnvPath, packages,
                   searchQuery, isExportModalOpen, exportingEnv, invokes, nInvoked>>
    /\ UNCHANGED uiVars

\* A click on the k-th environment of the list: handleEnvSelect.
ClickEnvSelect(k) ==
    /\ Clickable
    /\ ~ListHidden
    /\ LET st == handleEnvSelect(S, Render, environments[k])
       IN  Within(st) /\ Apply(st)
    /\ UNCHANGED uiVars

\* The create button (disabled={!!running}): handleCreateEnv.
ClickCreateEnv(name, pythonVersion) ==
    /\ Clickable
    /\ ~Truthy(running)
    /\ LET st == handleCreateEnv(S, Render, name, pythonVersion)
       IN  Within(st) /\ Apply(st)
    /\ UNCHANGED uiVars

\* The remove button of a list item that is not the base environment:
\* handleRemoveEnv up to `await confirm(...)`.
ClickRemoveEnv(k) ==
    /\ Clickable
    /\ ~ListHidden
    /\ ~IsBase(environments[k])
    /\ ~Truthy(running)
    /\ CanInvoke
    /\ dialog' = Suspended("handleRemoveEnv", Some(environments[k]), "", FALSE)
    /\ UNCHANGED <<appState, subscribed, mountVars, invokes, nInvoked, hostTags, microtask>>

\* The confirm dialog is answered.
ConfirmResolved(confirmed) ==
    /\ Idle
    /\ dialog # Null
    /\ dialog[1].fn = "handleRemoveEnv"
    /\ LET st == handleRemoveEnvResume(S, dialog[1].c, dialog[1].env[1], confirmed)
       IN  Within(st) /\ Apply(st)
    /\ dialog' = Null
    /\ UNCHANGED <<subscribed, mountVars, hostTags, microtask>>

\* The rename button of a list item that is not the base environment.
ClickRenameEnv(k, newName) ==
    /\ Clickable
    /\ ~ListHidden
    /\ ~IsBase(environments[k])
    /\ ~Truthy(running)
    /\ LET st == handleRenameEnv(S, Render, environments[k], newName)
       IN  Within(st) /\ Apply(st)
    /\ UNCHANGED uiVars

\* The clone button of a list item.
ClickCloneEnv(k, destName) ==
    /\ Clickable
    /\ ~ListHidden
    /\ ~Truthy(running)
    /\ LET st == handleCloneEnv(S, Render, environments[k], destName)
       IN  Within(st) /\ Apply(st)
    /\ UNCHANGED uiVars

\* The import button (disabled={!!running}): handleImportEnv up to `await open(...)`.
ClickImportEnv ==
    /\ Clickable
    /\ ~Truthy(running)
    /\ CanInvoke
    /\ dialog' = Suspended("handleImportEnv", Null, "", FALSE)
    /\ UNCHANGED <<appState, subscribed, mountVars, invokes, nInvoked, hostTags, microtask>>

\* The open dialog is answered, and then the prompt for the name.
OpenResolved(filePath, newName) ==
    /\ Idle
    /\ dialog # Null
    /\ dialog[1].fn = "handleImportEnv"
    /\ LET st == handleImportEnvResume(S, dialog[1].c, filePath, newName)
       IN  Within(st) /\ Apply(st)
    /\ dialog' = Null
    /\ UNCHANGED <<subscribed, mountVars, hostTags, microtask>>

\* The export button of a list item that is not the base environment: openExportModal.
ClickExport(k) ==
    /\ Clickable
    /\ ~ListHidden
    /\ ~IsBase(environments[k])
    /\ ~Truthy(running)
    /\ CanInvoke
    /\ Apply(openExportModal(S, environments[k]))
    /\ UNCHANGED uiVars

\* onClose of the export modal.
ModalClose ==
    /\ Idle
    /\ dialog = Null
    /\ isExportModalOpen
    /\ Apply(closeExportModal(S))
    /\ UNCHANGED uiVars

\* onExport of the export modal: handleExportFromModal up to `await save(...)`.
ModalExport(format, noBuilds) ==
    /\ Idle
    /\ dialog = Null
    /\ isExportModalOpen
    /\ exportingEnv # Null
    /\ dialog' = Suspended("handleExportFromModal", Null, format, noBuilds)
    /\ UNCHANGED <<appState, subscribed, mountVars, invokes, nInvoked, hostTags, microtask>>

\* The save dialog is answered.
SaveResolved(filePath) ==
    /\ Idle
    /\ dialog # Null
    /\ dialog[1].fn = "handleExportFromModal"
    /\ LET st == handleExportFromModalResume(S, dialog[1].c, dialog[1].format,
                                             dialog[1].noBuilds, filePath)
       IN  Within(st) /\ Apply(st)
    /\ dialog' = Null
    /\ UNCHANGED <<subscribed, mountVars, hostTags, microtask>>

Next ==
    \/ Mount
    \/ \E k \in DOMAIN setups : ListenResolved(k)
    \/ \E i \in DOMAIN invokes : HostAccept(i)
    \/ \E i \in DOMAIN invokes : \E e \in RejectValues : HostReject(i, e)
    \/ LoadEnvsResume
    \/ \E line \in StdoutLines : Stdout(line)
    \/ \E payload \in StderrLines : Stderr(payload)
    \/ \E i \in DOMAIN invokes : Terminated(i)
    \/ ClickLoad
    \/ ClickClearLogs
    \/ \E k \in DOMAIN environments : ClickEnvSelect(k)
    \/ \E name \in NameAnswers, pv \in VersionAnswers : ClickCreateEnv(name, pv)
    \/ \E k \in DOMAIN environments : ClickRemoveEnv(k)
    \/ \E confirmed \in BOOLEAN : ConfirmResolved(confirmed)
    \/ \E k \in DOMAIN environments : \E newName \in NameAnswers : ClickRenameEnv(k, newName)
    \/ \E k \in DOMAIN environments : \E destName \in NameAnswers : ClickCloneEnv(k, destName)
    \/ ClickImportEnv
    \/ \E filePath \in FileAnswers, newName \in NameAnswers : OpenResolved(filePath, newName)
    \/ \E k \in DOMAIN environments : ClickExport(k)
    \/ ModalClose
    \/ \E o \in ExportOptions : ModalExport(o.format, o.noBuilds)
    \/ \E filePath \in FileAnswers : SaveResolved(filePath)

\* The application from its first render on, mounted once and for good.
Spec == Init /\ [][Next]_vars

\* A running env-list process reports the environments it finds: the stdout
\* listener handles its ok:true result.
EnvListReported(envs) ==
    /\ Idle
    /\ Subscriptions(1) >= 1
    /\ \E i \in DOMAIN invokes : invokes[i].args = <<"env-list">> /\ invokes[i].st = "started"
    /\ Apply(Route(S, ResultOk("env-list", Some(envs))))
    /\ UNCHANGED uiVars

\* The selection and what changes the list under it: select, remove, rename,
\* the results of the two mutations and the lists their refresh reports.
SelectNext ==
    \/ \E k \in DOMAIN environments : ClickEnvSelect(k)
    \/ \E k \in DOMAIN environments : ClickRemoveEnv(k)
    \/ \E confirmed \in BOOLEAN : ConfirmResolved(confirmed)
    \/ \E k \in DOMAIN environments : \E newName \in NameAnswers : ClickRenameEnv(k, newName)
    \/ ClickClearLogs
    \/ \E i \in DOMAIN invokes : HostAccept(i)
    \/ \E i \in DOMAIN invokes : Terminated(i)
    \/ \E tag \in {"env-remove", "env-rename"} : Stdout(OkLine(tag, "null"))
    \/ \E envs \in {EnvListA, EnvListRenamed} : EnvListReported(envs)

SelectSpec == (Loaded \/ Selected) /\ [][SelectNext]_vars

\* The host settles an invoke(): it starts the process or rejects the call.
HostSettles ==
    \E i \in DOMAIN invokes : HostAccept(i) \/ \E e \in RejectValues : HostReject(i, e)

\* A process the host has started exits and the host emits its terminated event.
HostTerminates == \E i \in DOMAIN invokes : Terminated(i)

\* A listen() call of setupListeners resolves.
ListenSettles == \E k \in DOMAIN setups : ListenResolved(k)

\* The application with a responsive host: every invoke() is settled, every
\* started process exits with a terminated event, every listen() resolves, and
\* a continuation that can run does run. Nothing is assumed of the user.
LiveSpec ==
    /\ Init
    /\ [][Next]_vars
    /\ WF_vars(HostSettles)
    /\ WF_vars(HostTerminates)
    /\ WF_vars(ListenSettles)
    /\ WF_vars(LoadEnvsResume)

\* The application with a mount effect that is cleaned up and run again. App is
\* the root component: the cycles are those of one instance, whose state and
\* refs persist.
MountNext ==
    \/ Next
    \/ Unmount
    \/ \E k \in DOMAIN setups : CleanupRuns(k)

MountSpec == (Fresh \/ Loaded) /\ [][MountNext]_vars


-----------------------------------------------------------------------------
(* The lists and the query the views are computed from *)

\* The sequences without repetition of the elements of a set.
DistinctSeqs(set) ==
    UNION { { f \in [1..Cardinality(T) -> T] : \A i, j \in 1..Cardinality(T) : f[i] = f[j] => i = j } :
            T \in SUBSET set }

\* The lists an env-list result can carry: environments have distinct paths.
EnvLists == DistinctSeqs({EnvBase, EnvFooClone, EnvAlpha})

\* The lists a pkg-list result can carry.
PkgLists == DistinctSeqs({PkgNumpy, PkgPip})

\* What the user types into the search input.
Queries == {"", "PY", "p", "3"}

\* The application with its listeners registered and an environment selected,
\* before or after the probe has reported, with any lists and any query.
ViewInit ==
    /\ logs = <<>>
    /\ running = Null
    /\ condaInfo \in {Null, Some(Info)}
    /\ environments \in EnvLists
    /\ error = Null
    /\ selectedEnvPath = Some(EnvFooClone.path)
    /\ packages \in PkgLists
    /\ searchQuery \in Queries
    /\ isExportModalOpen = FALSE
    /\ exportingEnv = Null
    /\ subscribed = TRUE
    /\ setups = <<[n |-> 3, cleanup |-> "none"]>>
    /\ mounted = TRUE
    /\ effect = 1
    /\ nMounts = 1
    /\ invokes = <<>>
    /\ nInvoked = 0
    /\ hostTags = {"probe", "env-list", "pkg-list"}
    /\ microtask = Null
    /\ dialog = Null

\* An ok:true env-list result with this list is handled.
ReceiveEnvList(envs) ==
    /\ Apply(RouteEnvList(S, ResultOk("env-list", Some(envs))))
    /\ UNCHANGED uiVars

\* An ok:true pkg-list result with this list is handled.
ReceivePkgList(pkgs) ==
    /\ Apply(RoutePkgList(S, ResultOk("pkg-list", Some(pkgs))))
    /\ UNCHANGED uiVars

\* An ok:true probe result is handled.
ReceiveInfo ==
    /\ Apply(RouteProbe(S, ResultOk("probe", Some(Info))))
    /\ UNCHANGED uiVars

\* onChange of the search input: setSearchQuery(e.target.value)
TypeSearch(q) ==
    /\ Apply([S EXCEPT !.searchQuery = q])
    /\ UNCHANGED uiVars

ViewNext ==
    \/ \E envs \in EnvLists : ReceiveEnvList(envs)
    \/ \E pkgs \in PkgLists : ReceivePkgList(pkgs)
    \/ ReceiveInfo
    \/ \E q \in Queries : TypeSearch(q)

ViewSpec == ViewInit /\ [][ViewNext]_vars

-----------------------------------------------------------------------------
(* Properties *)

\* The handler's result st differs from the current state in nothing but the
\* named slices.
Frame(st, changed) == \A f \in (DOMAIN S) \ changed : st[f] = S[f]

\* The invoke() call runCommand('env-list') makes.
EnvListInvoke == [args |-> <<"env-list">>, st |-> "pending", awaiter |-> Null]

\* C1: in every reachable state at most one invocation of the host is
\* outstanding (made, and neither rejected nor terminated): no second invoke()
\* is made before a terminated event.
C1_SingleFlight == Len(invokes) <= 1

\* C2: a runCommand call made while `running` is set is a no-op: no invoke(),
\* and running, logs, error and every other slice stay as they are. The calls
\* are the one handleLoadEnvs makes after its await and the one the stdout
\* listener makes to refresh the list.
C2_DeclinesWhileRunning ==
    Truthy(running) =>
        /\ microtask # Null => handleLoadEnvsResume(S, microtask[1].c) = S
        /\ \A tag \in MutationTags :
              StdoutArrives(OkLine(tag, "null")) => handleLoadEnvs(S, FirstRender, FALSE) = S

\* C3: while a process the host has started has not terminated, `running` is
\* set; `running` being null implies no started process is un-terminated.
C3_RunningWhileStarted ==
    (\E i \in DOMAIN invokes : invokes[i].st = "started") => Truthy(running)

\* C4: when the host rejects an invoke(), error becomes String(e) and running
\* becomes null at once; condaInfo, environments and packages are unchanged.
C4_RejectSetsErrorClearsRunning ==
    \A i \in DOMAIN invokes : \A e \in RejectValues :
        Rejectable(i) =>
            LET st == runCommandCatch([S EXCEPT !.invokes = RemoveAt(@, i)], e)
            IN  /\ st.error = Some("Error: program not found")
                /\ st.running = Null
                /\ st.condaInfo = condaInfo
                /\ st.environments = environments
                /\ st.packages = packages

\* C4 witness: a rejected invoke() has left its error and no running command.
C4_Witness == error = Some("Error: program not found") /\ running = Null

\* C5: a stdout line that is not JSON is appended verbatim as the last entry
\* of logs; nothing else changes and no invoke() is made.
C5_TextLineLogged ==
    \A line \in StdoutLines :
        (StdoutArrives(line) /\ JSONParse(line).t = "invalid") =>
            LET st == OnStdout(S, line)
            IN  st.logs = Append(logs, line) /\ Frame(st, {"logs"})

\* C5 witness: the text line is the last entry of logs.
C5_Witness == Len(logs) > 0 /\ logs[Len(logs)] = TextLine

\* C6: a stdout line that is JSON but has no command, or a command that is no
\* known tag, is appended verbatim to logs and nothing else changes: it is
\* never dropped.
C6_UnrecognisedJSONLogged ==
    \A line \in StdoutLines :
        LET result == JSONParse(line)
            unrecognised == IF result.t # "object" THEN FALSE
                            ELSE IF result.command = Null THEN TRUE
                            ELSE result.command[1] \notin CommandTags
        IN  (StdoutArrives(line) /\ unrecognised) =>
                LET st == OnStdout(S, line)
                IN  st.logs = Append(logs, line) /\ Frame(st, {"logs"})

\* C7: a stderr line, also one that reads as a result, is appended to logs as
\* "[ERR] " followed by the line; nothing else changes and no invoke() is made.
C7_StderrPrefixed ==
    \A payload \in StderrLines :
        StderrArrives =>
            LET st == OnStderr(S, payload)
            IN  st.logs = Append(logs, "[ERR] " \o payload) /\ Frame(st, {"logs"})

\* C7 witness: the last entry of logs is a stderr line with its prefix.
C7_Witness ==
    /\ Len(logs) > 0
    /\ logs[Len(logs)] = "[ERR] {\"command\":\"pkg-list\",\"ok\":false,\"error\":\"prefix not found\"}"

\* C8: an ok:true result of probe, env-list or pkg-list replaces condaInfo,
\* environments or packages by its payload and changes nothing else.
C8_OkReplacesSlice ==
    /\ StdoutArrives(OkLine("probe", InfoText)) =>
          LET st == OnStdout(S, OkLine("probe", InfoText))
          IN  st.condaInfo = Some(Info) /\ Frame(st, {"condaInfo"})
    /\ StdoutArrives(OkLine("env-list", EnvListAText)) =>
          LET st == OnStdout(S, OkLine("env-list", EnvListAText))
          IN  st.environments = EnvListA /\ Frame(st, {"environments"})
    /\ StdoutArrives(OkLine("pkg-list", PkgListAText)) =>
          LET st == OnStdout(S, OkLine("pkg-list", PkgListAText))
          IN  st.packages = PkgListA /\ Frame(st, {"packages"})

\* C8 witness: the packages of a selected environment have been received.
C8_Witness == packages = PkgListA /\ selectedEnvPath # Null

\* C9: an ok:false result of any tag sets error to the result's error string
\* and makes no invoke(); for pkg-list packages becomes empty as well, for any
\* other tag nothing else changes.
C9_FailSetsError ==
    \A tag \in CommandTags :
        StdoutArrives(FailLine(tag, ErrorOf(tag))) =>
            LET st == OnStdout(S, FailLine(tag, ErrorOf(tag)))
            IN  /\ st.error = Some(IF tag = "pkg-list" THEN "prefix not found"
                                                           ELSE "conda not found")
                /\ IF tag = "pkg-list"
                   THEN st.packages = <<>> /\ Frame(st, {"error", "packages"})
                   ELSE Frame(st, {"error"})

\* C9 witness: a failed pkg-list has left its error and an empty package list.
C9_Witness ==
    /\ error = Some("prefix not found")
    /\ packages = <<>>
    /\ selectedEnvPath # Null

\* C10: an ok:true result of env-create, env-remove, env-rename, env-import or
\* env-clone appends one success line to logs and makes exactly one invoke(),
\* of env-list; it makes none of probe.
C10_MutationRefreshes ==
    \A tag \in MutationTags :
        StdoutArrives(OkLine(tag, "null")) =>
            LET st == OnStdout(S, OkLine(tag, "null"))
            IN  /\ st.logs = logs \o <<SuccessLine(ActionOf(tag)), StartingLine("env-list")>>
                /\ st.invokes = Append(invokes, EnvListInvoke)
                /\ st.nInvoked = nInvoked + 1

\* C10 witness: the result of env-remove has been logged and env-list invoked.
C10_Witness ==
    /\ Len(logs) = 2
    /\ logs[1] = "--- Environment remove operation successful! Refreshing list... ---"
    /\ logs[2] = "\n--- Starting command: env-list ---"
    /\ \E i \in DOMAIN invokes : invokes[i].args = <<"env-list">>


\* C11: an ok:true result of env-export appends exactly one success line to
\* logs; it makes no invoke() and changes nothing else.
C11_ExportOkLogsOnly ==
    StdoutArrives(OkLine("env-export", "null")) =>
        LET st == OnStdout(S, OkLine("env-export", "null"))
        IN  /\ st.logs = Append(logs, "--- Environment exported successfully! ---")
            /\ Frame(st, {"logs"})

\* C11 witness: the result of an env-export has been logged.
C11_Witness ==
    /\ "env-export" \in hostTags
    /\ Len(logs) > 0
    /\ logs[Len(logs)] = "--- Environment exported successfully! ---"


\* The elements of a sequence.
Range(seq) == { seq[i] : i \in DOMAIN seq }

\* C12: sortedEnvironments is a permutation of environments; with condaInfo
\* present the environment at root_prefix is first and the others follow in
\* code-unit order of their paths; with condaInfo absent it is environments in
\* its own order.
C12_SortedProjection ==
    LET out == sortedEnvironments(S)
    IN  /\ Len(out) = Len(environments) /\ Range(out) = Range(environments)
        /\ condaInfo = Null => out = environments
        /\ condaInfo # Null =>
              /\ \A i \in DOMAIN out : out[i].path = condaInfo[1].root_prefix => i = 1
              /\ \A i, j \in DOMAIN out :
                    (i < j /\ out[i].path # condaInfo[1].root_prefix
                           /\ out[j].path # condaInfo[1].root_prefix)
                    => CodeUnitCompare(out[i].path, out[j].path) <= 0

\* C13: filteredPackages holds exactly the packages whose lower-cased name
\* contains the lower-cased query, in the order of packages; version, build and
\* channel are not matched, and with the empty query it is packages itself.
C13_FilterByName ==
    LET out == filteredPackages(S)
        matches(p) == Includes(ToLowerCase(p.name), ToLowerCase(searchQuery))
    IN  /\ Range(out) = { p \in Range(packages) : matches(p) }
        /\ Len(out) = Cardinality(Range(out))
        /\ \A i, j \in DOMAIN out : i < j =>
              \E a, b \in DOMAIN packages : a < b /\ packages[a] = out[i] /\ packages[b] = out[j]
        /\ searchQuery = "" => out = packages
        /\ (searchQuery = "3" /\ PkgPip \in Range(packages)) => PkgPip \notin Range(out)

\* C13 witness: a query in capitals selects NumPy and leaves pip out.
C13_Witness ==
    /\ searchQuery = "PY"
    /\ packages = <<PkgPip, PkgNumpy>>
    /\ filteredPackages(S) = <<PkgNumpy>>

\* C14: isEnvNameExists holds of a name exactly when the name is "base" in any
\* case or is, in any case, the last path segment of an environment of the list.
C14_NameExists ==
    LET has(env) == env \in Range(environments)
    IN  /\ isEnvNameExists(Render, "Base")
        /\ isEnvNameExists(Render, "base")
        /\ isEnvNameExists(Render, "foo-clone") <=> has(EnvFooClone)
        /\ isEnvNameExists(Render, "FOO-clone") <=> has(EnvFooClone)
        /\ isEnvNameExists(Render, "alpha") <=> has(EnvAlpha)
        /\ isEnvNameExists(Render, "conda") <=> has(EnvBase)
        /\ ~isEnvNameExists(Render, "bar")

\* C14 witness: the list holds .../envs/FOO-clone and "foo-clone" is found.
C14_Witness ==
    /\ EnvFooClone \in Range(environments)
    /\ EnvAlpha \notin Range(environments)
    /\ isEnvNameExists(Render, "foo-clone")
    /\ ~isEnvNameExists(Render, "alpha")


\* C15: in the create, rename, clone and import flows a name that
\* isEnvNameExists finds in the current list leads to no invoke() and changes
\* neither running, logs, error nor any list.
C15_ConflictBlocksDispatch ==
    \A name \in NameAnswers :
        (~Blank(name) /\ isEnvNameExists(Render, Trim(name[1]))) =>
            /\ (Clickable /\ ~Truthy(running)) =>
                  \A pv \in VersionAnswers : handleCreateEnv(S, Render, name, pv) = S
            /\ (Clickable /\ ~Truthy(running) /\ ~ListHidden) =>
                  \A k \in DOMAIN environments :
                      /\ ~IsBase(environments[k]) => handleRenameEnv(S, Render, environments[k], name) = S
                      /\ handleCloneEnv(S, Render, environments[k], name) = S
            /\ (Idle /\ dialog # Null) =>
                  (dialog[1].fn = "handleImportEnv" =>
                      \A filePath \in FileAnswers : handleImportEnvResume(S, dialog[1].c, filePath, name) = S)


\* C16: whatever the mount/unmount cycles and the timing of setupListeners, no
\* stream (stdout, stderr, terminated) has two listeners registered at once, so
\* no event is handled twice.
C16_NoDuplicateSubscription == \A stream \in 1..3 : Subscriptions(stream) <= 1

\* C16 witness: the effect has run a second time and stdout has its listener.
C16_Witness == nMounts = 2 /\ mounted /\ Subscriptions(1) = 1

\* C17: when the application is mounted and every setupListeners call and every
\* cleanup has completed, each of the three streams has exactly one listener
\* registered.
C17_OneSubscriptionOnceSettled ==
    (/\ mounted
     /\ \A k \in DOMAIN setups : setups[k].n = 3 /\ setups[k].cleanup # "pending")
    => \A stream \in 1..3 : Subscriptions(stream) = 1


\* C18: whenever packages is not empty an environment is selected, and the
\* list is what a pkg-list the host was started for has reported; also when a
\* terminated event precedes the result line or a result line comes twice.
C18_PackagesOfSelection ==
    packages # <<>> => (selectedEnvPath # Null /\ "pkg-list" \in hostTags)


\* The invoke() call is an env-remove, env-rename or env-export of the
\* environment at root_prefix.
TargetsBase(call) ==
    LET root == condaInfo[1].root_prefix
        tag == call.args[1]
    IN  \/ tag = "env-remove" /\ call.args[3] = root
        \/ tag \in {"env-rename", "env-export"} /\ call.args[3] = OrElse(SplitPop(root), root)

\* C19: while condaInfo is present no step invokes env-remove, env-rename or
\* env-export for the environment whose path is root_prefix.
C19_BaseProtected ==
    [][(condaInfo # Null /\ Len(invokes') > Len(invokes))
         => ~TargetsBase(invokes'[Len(invokes')])]_vars


\* The processes the host has started and that have not exited.
NStarted(calls) == Cardinality({ i \in DOMAIN calls : calls[i].st = "started" })

\* A step of the user: a click on a control that dispatches, or an answer to a
\* dialog a handler waits for.
UserDispatch ==
    \/ ClickLoad
    \/ \E k \in DOMAIN environments : ClickEnvSelect(k)
    \/ \E name \in NameAnswers, pv \in VersionAnswers : ClickCreateEnv(name, pv)
    \/ \E k \in DOMAIN environments, name \in NameAnswers :
          ClickRenameEnv(k, name) \/ ClickCloneEnv(k, name)
    \/ \E confirmed \in BOOLEAN : ConfirmResolved(confirmed)
    \/ \E filePath \in FileAnswers, newName \in NameAnswers : OpenResolved(filePath, newName)
    \/ \E filePath \in FileAnswers : SaveResolved(filePath)

\* C20: while a started process has not exited and no terminated event is
\* delivered, running stays set and no step of the user invokes the host: in a
\* step that takes no started process away, running stays set and a user step
\* adds no invoke().
C20_HungProcessBlocks ==
    [][(Truthy(running) /\ NStarted(invokes) >= 1 /\ NStarted(invokes') >= NStarted(invokes))
         => /\ Truthy(running')
            /\ UserDispatch => Len(invokes') <= Len(invokes)]_vars


RunStarts(st0, c, command, extraArgs) ==
    LET st == runCommand(st0, c, command, extraArgs, Null)
        text == Join(FinalArgs(command, extraArgs))
    IN  /\ st.running = Some(text)
        /\ st.logs = Append(st0.logs, "\n--- Starting command: " \o text \o " ---")
        /\ st.error = Null
        /\ Len(st.invokes) = Len(st0.invokes) + 1
        /\ st.invokes[Len(st.invokes)].st = "pending"
        /\ st.condaInfo = st0.condaInfo
        /\ st.environments = st0.environments
        /\ st.packages = st0.packages
        /\ st.selectedEnvPath = st0.selectedEnvPath

\* C22: a runCommand call made while running is null starts the command, at
\* every place that calls it: the buttons, the continuation of handleLoadEnvs,
\* the refresh of the stdout listener, and the handlers that resume after a
\* confirm, open or save dialog.
C22_RunStartsWhenIdle ==
    ~Truthy(running) =>
        /\ (Clickable /\ CanInvoke) =>
              /\ RunStarts(S, Render, "probe", <<>>)
              /\ \A k \in DOMAIN environments :
                    RunStarts(S, Render, "pkg-list", <<"--prefix", environments[k].path>>)
        /\ (subscribed /\ microtask # Null) => RunStarts(S, microtask[1].c, "env-list", <<>>)
        /\ \A tag \in MutationTags :
              StdoutArrives(OkLine(tag, "null")) => RunStarts(S, FirstRender, "env-list", <<>>)
        /\ (Idle /\ dialog # Null) =>
              /\ dialog[1].fn = "handleRemoveEnv" =>
                    RunStarts(S, dialog[1].c, "env-remove", <<"--prefix", dialog[1].env[1].path>>)
              /\ dialog[1].fn = "handleImportEnv" =>
                    RunStarts(S, dialog[1].c, "env-import", <<"--file", "/tmp/env.yml", "--name", "bar">>)
              /\ dialog[1].fn = "handleExportFromModal" =>
                    RunStarts(S, dialog[1].c, "env-export",
                              <<"--name", "FOO-clone", "--file", "/tmp/env.yml", "--format",
                                dialog[1].format, IF dialog[1].noBuilds THEN "--no-builds" ELSE "">>)


\* The sequence without its empty strings, the others in their order.
RECURSIVE WithoutEmpty(_)
WithoutEmpty(seq) ==
    IF seq = <<>> THEN <<>>
    ELSE IF seq[1] = "" THEN WithoutEmpty(Tail(seq))
    ELSE <<seq[1]>> \o WithoutEmpty(Tail(seq))

\* The argument lists of up to three elements over an empty and two other strings.
ArgLists == UNION { [1..n -> {"", "--name", "n"}] : n \in 0..3 }

\* The name handleExportFromModal derives from the environment it exports.
ExportName(env) == IF env.path = "/opt/conda/envs/FOO-clone" THEN "FOO-clone" ELSE "conda"

\* C23: the arguments runCommand passes to invoke() are the command followed
\* by the extra arguments without the empty strings, in their order; no call
\* made carries an empty string; an export answered with a file passes
\* env-export --name n --file p --format f, followed by --no-builds exactly
\* when the option is set.
C23_ArgumentVector ==
    /\ \A args \in ArgLists : FinalArgs("probe", args) = <<"probe">> \o WithoutEmpty(args)
    /\ \A i \in DOMAIN invokes : \A j \in DOMAIN invokes[i].args : invokes[i].args[j] # ""
    /\ (/\ Idle /\ dialog # Null /\ dialog[1].fn = "handleExportFromModal"
        /\ ~Truthy(dialog[1].c.running))
       => LET st == handleExportFromModalResume(S, dialog[1].c, dialog[1].format,
                                                dialog[1].noBuilds, Some("/tmp/env.yml"))
              n == ExportName(dialog[1].c.exportingEnv[1])
              base == <<"env-export", "--name", n, "--file", "/tmp/env.yml",
                        "--format", dialog[1].format>>
          IN  /\ Len(st.invokes) = Len(invokes) + 1
              /\ st.invokes[Len(st.invokes)].args =
                    IF dialog[1].noBuilds THEN Append(base, "--no-builds") ELSE base

\* C23 witness: an export without the no-builds option has been invoked.
C23_Witness ==
    \E i \in DOMAIN invokes :
        invokes[i].args = <<"env-export", "--name", "FOO-clone", "--file", "/tmp/env.yml",
                            "--format", "yml">>


\* a is b or the beginning of b.
IsPrefix(a, b) == Len(a) <= Len(b) /\ SubSeq(b, 1, Len(a)) = a

\* C24: a step that is not the click on the clear-log button leaves logs as it
\* is or adds entries at its end, the entries it had staying in their places;
\* the click on the clear-log button empties logs and changes nothing else.
C24_LogAppendOnly ==
    [][/\ ClickClearLogs \/ IsPrefix(logs, logs')
       /\ ClickClearLogs =>
             /\ logs' = <<>>
             /\ UNCHANGED <<running, condaInfo, environments, error, selectedEnvPath,
                            packages, searchQuery, isExportModalOpen, exportingEnv,
                            subscribed, mountVars, invokes, nInvoked, hostTags,
                            microtask, dialog>>]_vars

\* C24 witness: a command runs, so its starting line was appended, and the
\* log has been cleared since.
C24_Witness == logs = <<>> /\ Truthy(running)


\* A step in which error changes is one of: the stdout listener handling an
\* ok:false result, error becoming the result's error; a runCommand call that
\* passes its guard and makes an invoke(), error becoming null; the catch of a
\* rejected invoke(), error becoming String(e).
ErrorChangeAllowed ==
    \/ \E line \in StdoutLines :
          /\ Stdout(line)
          /\ JSONParse(line).t = "object" /\ ~JSONParse(line).ok
          /\ error' = JSONParse(line).error
    \/ nInvoked' = nInvoked + 1 /\ error' = Null
    \/ \E i \in DOMAIN invokes : \E e \in RejectValues :
          HostReject(i, e) /\ error' = Some(StringOf(e))

\* The events that leave error as it is: an ok:true result of probe, env-list,
\* pkg-list or env-export, a line that is not JSON, a stderr line and a
\* terminated event.
ErrorKept ==
    /\ \A line \in { OkLine("probe", InfoText), OkLine("env-list", EnvListAText),
                      OkLine("pkg-list", PkgListAText), OkLine("env-export", "null"),
                      TextLine } :
          StdoutArrives(line) => OnStdout(S, line).error = error
    /\ \A payload \in StderrLines : StderrArrives => OnStderr(S, payload).error = error
    /\ (Idle /\ Subscriptions(3) >= 1) => OnTerminated(S).error = error

\* C25: error changes in three ways only (an ok:false result sets it to the
\* result's error, a runCommand call that passes its guard sets it to null, a
\* rejected invoke() sets it to String(e)), and an ok:true result of probe,
\* env-list, pkg-list or env-export, a stderr line, a stdout line that is not
\* JSON and a terminated event leave it as it is.
C25_ErrorChanges ==
    [][/\ error' # error => ErrorChangeAllowed
       /\ ErrorKept]_vars

\* C25 witness: a failed result has set error, and a stderr line handled after
\* or before it is the last entry of the log.
C25_Witness ==
    /\ error = Some("conda not found")
    /\ Len(logs) > 0
    /\ logs[Len(logs)] = "[ERR] " \o FailLine("pkg-list", "prefix not found")


\* A step in which selectedEnvPath changes is a click on an environment while
\* running is null, the selection becoming its path, or the confirmation of
\* the removal of the selected environment, the selection becoming null.
SelectionChangeAllowed ==
    \/ /\ ~Truthy(running)
       /\ \E k \in DOMAIN environments :
             ClickEnvSelect(k) /\ selectedEnvPath' = Some(environments[k].path)
    \/ /\ ConfirmResolved(TRUE)
       /\ selectedEnvPath = Some(dialog[1].env[1].path)
       /\ selectedEnvPath' = Null

\* C26: selectedEnvPath changes only by a selection made while running is
\* null, which sets it to the path clicked, and by the confirmed removal of
\* the selected environment, which sets it to null; after such a step packages
\* is empty; a click on an environment while running is set changes neither
\* the selection, packages nor searchQuery.
C26_SelectionChanges ==
    [][/\ selectedEnvPath' # selectedEnvPath => (SelectionChangeAllowed /\ packages' = <<>>)
       /\ (Truthy(running) /\ Clickable /\ ~ListHidden) =>
             \A k \in DOMAIN environments :
                 LET st == handleEnvSelect(S, Render, environments[k])
                 IN  /\ st.selectedEnvPath = selectedEnvPath
                     /\ st.packages = packages
                     /\ st.searchQuery = searchQuery]_vars

\* C26 witness: an environment was selected, its packages were asked for, and
\* its removal has reset the selection.
C26_Witness ==
    /\ selectedEnvPath = Null
    /\ "pkg-list" \in hostTags
    /\ \E i \in DOMAIN invokes : invokes[i].args[1] = "env-remove"


\* The application is unmounted and nothing of its teardown is left to run:
\* every setupListeners call has returned and no cleanup waits.
TornDown ==
    /\ ~mounted
    /\ nMounts >= 1
    /\ \A k \in DOMAIN setups : setups[k].n = 3 /\ setups[k].cleanup # "pending"

\* C27: once the application is unmounted and its teardown has completed, also
\* when the cleanup was registered before setupListeners had returned, none of
\* the three streams has a listener and no stdout, stderr or terminated event
\* is handled.
C27_ReleasedAfterUnmount ==
    TornDown =>
        /\ \A stream \in 1..3 : Subscriptions(stream) = 0
        /\ \A line \in StdoutLines : ~StdoutArrives(line)
        /\ ~StderrArrives

\* C27 witness: the teardown has completed while the startup probe, or a later
\* command, is still running.
C27_Witness == TornDown /\ setups # <<>> /\ Truthy(running)


\* The continuation of handleLoadEnvs waits at the bounds of the exploration.
Stalled == microtask # Null /\ ~Within(handleLoadEnvsResume(S, microtask[1].c))

\* C28: with a responsive host, whenever running is set it is null again
\* later: no command holds the gate forever.
C28_GateReopens == Truthy(running) ~> (~Truthy(running) \/ Stalled)


\* C29: the mount effect invokes the startup probe only when the stdout,
\* stderr and terminated listeners are registered, and while the process of a
\* command runs each of the three streams has its listener: no result line and
\* no terminated event is emitted to nobody.
C29_ProbeAfterListeners ==
    [][/\ (Mount /\ nInvoked' = nInvoked + 1) =>
             \A stream \in 1..3 : Subscriptions(stream)' >= 1
       /\ (\E i \in DOMAIN invokes : invokes[i].args = <<"probe">> /\ invokes[i].st = "started")
             => \A stream \in 1..3 : Subscriptions(stream) >= 1]_vars


\* C30: a click on load/refresh while running is null invokes probe, and once
\* the host has settled that invoke() the continuation of the same click
\* invokes env-list: the two invoke() calls of one click, probe first.
C30_LoadProbesThenLists ==
    /\ (Clickable /\ ~Truthy(running)) =>
          LET st == handleLoadEnvs(S, Render, TRUE)
          IN  /\ Len(st.invokes) = Len(invokes) + 1
              /\ st.invokes[Len(st.invokes)].args = <<"probe">>
              /\ st.invokes[Len(st.invokes)].awaiter # Null
    /\ (subscribed /\ microtask # Null) =>
          LET st == handleLoadEnvsResume(S, microtask[1].c)
          IN  /\ microtask[1].fn = "handleLoadEnvs"
              /\ st.invokes = Append(invokes, [args |-> <<"env-list">>, st |-> "pending",
                                                awaiter |-> Null])
              /\ st.nInvoked = nInvoked + 1

\* C30 witness: the probe of a click has been started and the env-list of the
\* same click has been invoked after it.
C30_Witness ==
    /\ Len(invokes) = 2
    /\ invokes[1].args = <<"probe">> /\ invokes[1].st = "started"
    /\ invokes[2].args = <<"env-list">>
    /\ logs = <<"\n--- Starting command: probe ---", "\n--- Starting command: env-list ---">>


\* C31: whenever an environment is selected, selectedEnvPath is the path of an
\* environment of the list, after any select, remove, rename and env-list
\* result.
C31_SelectionInList ==
    selectedEnvPath # Null =>
        \E k \in DOMAIN environments : environments[k].path = selectedEnvPath[1]

====
